---- MODULE Spec2Model ----
(***************************************************************************)
(* A model of sites_checker (bench.py): fetch_once, SitesChecker.fetch_host, *)
(* SitesChecker.start and SitesChecker.print_table, run by the asyncio      *)
(* event loop.                                                              *)
(*                                                                          *)
(* Elapsed times are floats rounded to 3 decimals (bench.py:51, 129-132);   *)
(* they are modelled as integers counting milliseconds.  Strings that are   *)
(* rendered are sequences of one-character strings.                         *)
(***************************************************************************)
EXTENDS Integers, Sequences, FiniteSets, TLC

\* ------------------------------------------------------------------ bounds

\* Largest number of hosts, largest count and largest number of probes
\* (hosts x count) of one run of the event loop.
MaxHosts == 2
MaxCount == 2
MaxProbes == 4
\* Largest elapsed time of a probe of a run of the event loop, in milliseconds.
MaxLoopTime == 1
\* Largest number of probes of one host in the sequential aggregation.
MaxLen == 3
\* Largest elapsed time of a probe, in milliseconds.
MaxTime == 2

\* ------------------------------------------------------------ float values

\* A Python float that is a number: ms thousandths of a second.
Num(n) == [tag |-> "float", ms |-> n]
\* float("inf"), float("-inf") and None.
PosInf == [tag |-> "inf", ms |-> 0]
NegInf == [tag |-> "-inf", ms |-> 0]
None == [tag |-> "None", ms |-> 0]

IsNum(x) == x.tag = "float"

\* a <= b on floats, with the two infinities.
Leq(a, b) ==
    \/ a.tag = "-inf"
    \/ b.tag = "inf"
    \/ (IsNum(a) /\ IsNum(b) /\ a.ms <= b.ms)

\* A min() that keeps its second argument.
PyMinLast(a, b) == b
\* Python's min(a, b) and max(a, b): the first argument wins a draw.
PyMin(a, b) == IF Leq(a, b) THEN a ELSE b
PyMax(a, b) == IF Leq(b, a) THEN a ELSE b

\* round(num / den, 3) of a quotient of millisecond counts, den > 0.  A
\* quotient that lies exactly between two thousandths is rounded by the sign of
\* the binary representation error of the float, which the operands decide:
\* up tells which way it goes.
Round3(num, den, up) ==
    LET q == num \div den
        r == num % den
    IN  IF 2 * r < den THEN q
        ELSE IF 2 * r > den THEN q + 1
        ELSE IF up THEN q + 1 ELSE q

\* ------------------------------------------------------------- fetch_once

\* ResultStatus
OK == "ok"
FAILED == "failed"
ERROR == "error"

FetchResult(status, time) == [status |-> status, time |-> time]

\* What the transport can raise out of session.get: subclasses of
\* aiohttp.ClientError (a refused connection or a DNS failure, a read that
\* timed out), and asyncio.TimeoutError, which the session raises when the
\* total timeout of a request expires and which is no aiohttp.ClientError.
ClientErrors == {"ClientConnectorError", "ServerTimeoutError"}
Exceptions == ClientErrors \cup {"TimeoutError"}

\* except aiohttp.ClientError
Caught(exc) == exc \in ClientErrors

\* An ok that lets 400 through.
ResponseOkInclusive(status) == status <= 400
\* response.ok
ResponseOk(status) == status < 400

\* The answer of the transport to one GET: a response with a status code, or
\* an exception.
Response(status) == [kind |-> "response", status |-> status, exc |-> ""]
Raises(exc) == [kind |-> "exception", status |-> 0, exc |-> exc]

\* Whether fetch_once returns (TRUE) or the exception leaves it (FALSE).
Returns(answer) == answer.kind = "response" \/ Caught(answer.exc)

\* The FetchResult of fetch_once for an answer it returns on; seconds is the
\* rounded elapsed time.
Classify(answer, seconds) ==
    IF answer.kind = "response"
    THEN IF ResponseOk(answer.status)
         THEN FetchResult(OK, Num(seconds))
         ELSE FetchResult(FAILED, Num(seconds))
    ELSE FetchResult(ERROR, NegInf)

\* ------------------------------------------------------------ fetch_host

\* A HostInfo whose avg defaults to 0.0.
NewHostInfoZeroAvg(host) ==
    [host |-> host, success |-> 0, failed |-> 0, errors |-> 0,
     min |-> PosInf, max |-> NegInf, avg |-> Num(0)]
\* HostInfo(host = host)
NewHostInfo(host) ==
    [host |-> host, success |-> 0, failed |-> 0, errors |-> 0,
     min |-> PosInf, max |-> NegInf, avg |-> None]

\* The divisor of the running average as bench.py:130 writes it.
AvgCount(info) == info.success

\* An error branch that continues without counting.
FoldErrorSkip(info) == info
\* The branch of an errored result (bench.py:122-124).
FoldError(info) == [info EXCEPT !.errors = @ + 1]

\* The branch of a timed result (bench.py:125-136); up is the direction in
\* which round() resolves a half.
FoldTimed(info, result, up) ==
    LET k == AvgCount(info)
        avg0 == IF info.avg = None THEN 0 ELSE info.avg.ms
    IN  [info EXCEPT
            !.min = PyMin(info.min, result.time),
            !.max = PyMax(info.max, result.time),
            !.avg = Num(Round3(k * avg0 + result.time.ms, k + 1, up)),
            !.success = IF result.status = OK THEN @ + 1 ELSE @,
            !.failed = IF result.status = OK THEN @ ELSE @ + 1]

\* One pass of the body of "for result in results".
FoldStep(info, result, up) ==
    IF result.status = ERROR
    THEN FoldError(info)
    ELSE FoldTimed(info, result, up)

\* The whole loop over results; ups[j] is the rounding direction of pass j.
RECURSIVE FoldFrom(_, _, _, _)
FoldFrom(info, results, ups, j) ==
    IF j > Len(results) THEN info
    ELSE FoldFrom(FoldStep(info, results[j], ups[j]), results, ups, j + 1)

FoldAll(host, results, ups) == FoldFrom(NewHostInfo(host), results, ups, 1)

\* ------------------------------------------------------------ print_table

\* "c" * n
RECURSIVE Repeat(_, _)
Repeat(c, n) == IF n <= 0 THEN <<>> ELSE <<c>> \o Repeat(c, n - 1)

\* The concatenation of the strings of a sequence.
RECURSIVE Concat(_)
Concat(ss) == IF ss = <<>> THEN <<>> ELSE Head(ss) \o Concat(Tail(ss))

\* sep.join(ss)
RECURSIVE Join(_, _)
Join(sep, ss) ==
    IF ss = <<>> THEN <<>>
    ELSE IF Len(ss) = 1 THEN ss[1]
    ELSE ss[1] \o sep \o Join(sep, Tail(ss))

Digit == <<"0", "1", "2", "3", "4", "5", "6", "7", "8", "9">>

\* str(n) of an int n >= 0.
RECURSIVE StrInt(_)
StrInt(n) ==
    IF n < 10 THEN <<Digit[n + 1]>>
    ELSE StrInt(n \div 10) \o <<Digit[(n % 10) + 1]>>

\* str(x) of a float x of ms thousandths: the shortest decimal that reads back
\* as x, with at least one digit after the point ("0.0", "0.25", "1.003").
StrMillis(ms) ==
    LET f == ms % 1000
        d1 == f \div 100
        d2 == (f \div 10) % 10
        d3 == f % 10
        frac == IF d3 # 0 THEN <<Digit[d1 + 1], Digit[d2 + 1], Digit[d3 + 1]>>
                ELSE IF d2 # 0 THEN <<Digit[d1 + 1], Digit[d2 + 1]>>
                ELSE <<Digit[d1 + 1]>>
    IN  StrInt(ms \div 1000) \o <<".">> \o frac

\* str(x) of a float, of an infinity or of None.
StrFloat(x) ==
    IF IsNum(x) THEN StrMillis(x.ms)
    ELSE IF x = PosInf THEN <<"i", "n", "f">>
    ELSE IF x = NegInf THEN <<"-", "i", "n", "f">>
    ELSE <<"N", "o", "n", "e">>

\* s.center(width)
Center(s, width) ==
    IF Len(s) >= width THEN s
    ELSE LET marg == width - Len(s)
             left == (marg \div 2) + (IF marg % 2 = 1 /\ width % 2 = 1 THEN 1 ELSE 0)
         IN  Repeat(" ", left) \o s \o Repeat(" ", marg - left)

\* keys, in the order of the fields of HostInfo.
Keys == <<"host", "success", "failed", "errors", "min", "max", "avg">>

\* key.title()
Title ==
    [host |-> <<"H", "o", "s", "t">>,
     success |-> <<"S", "u", "c", "c", "e", "s", "s">>,
     failed |-> <<"F", "a", "i", "l", "e", "d">>,
     errors |-> <<"E", "r", "r", "o", "r", "s">>,
     min |-> <<"M", "i", "n">>,
     max |-> <<"M", "a", "x">>,
     avg |-> <<"A", "v", "g">>]

\* str(value) of field key of a HostInfo.
StrField(info, key) ==
    IF key = "host" THEN info.host
    ELSE IF key \in {"success", "failed", "errors"} THEN StrInt(info[key])
    ELSE StrFloat(info[key])

\* The text measured for the width of a column (bench.py:153-155): None
\* counts as "".
MeasuredText(info, key) ==
    IF key \in {"min", "max", "avg"} /\ info[key] = None THEN <<>>
    ELSE StrField(info, key)

\* The test of bench.py:153 in the place of that of bench.py:164.
BlankNoneOnly(info, key) ==
    key \in {"min", "max", "avg"} /\ info[key] = None
\* if value is None or value in (float("inf"), float("-inf"))
Blank(info, key) ==
    key \in {"min", "max", "avg"} /\ info[key] \in {None, PosInf, NegInf}

\* The text written in a cell (bench.py:164-166).
CellText(info, key) == IF Blank(info, key) THEN <<>> ELSE StrField(info, key)

Max(a, b) == IF a >= b THEN a ELSE b

\* max_lens[key] after the first j records.
RECURSIVE MaxLenFrom(_, _, _)
MaxLenFrom(infos, key, j) ==
    IF j = 0 THEN Len(Title[key]) + 2
    ELSE Max(Len(MeasuredText(infos[j], key)) + 2, MaxLenFrom(infos, key, j - 1))

MaxLens(infos) == [key \in DOMAIN Title |-> MaxLenFrom(infos, key, Len(infos))]

Border(lens) ==
    <<"+">> \o Join(<<"+">>, [k \in 1..7 |-> Repeat("-", lens[Keys[k]] + 2)]) \o <<"+">>

Header(lens) ==
    <<"|">>
    \o Join(<<"|">>,
            [k \in 1..7 |-> <<" ">> \o Center(Title[Keys[k]], lens[Keys[k]]) \o <<" ">>])
    \o <<"|">>

Row(info, lens) ==
    <<"|">>
    \o Concat([k \in 1..7 |->
                 <<" ">> \o Center(CellText(info, Keys[k]), lens[Keys[k]]) \o <<" ", "|">>])

\* lines, for a non-empty list of records.
Lines(infos) ==
    LET lens == MaxLens(infos)
        border == Border(lens)
    IN  <<border, Header(lens), border>>
        \o Concat([j \in 1..Len(infos) |-> <<Row(infos[j], lens), border>>])

\* ------------------------------------------------------------ the inputs

\* Status codes a server answers with, around the bounds of the classes.
Statuses == {101, 200, 399, 400, 503}

\* Rounded elapsed times, in milliseconds.
Times == 0..MaxTime
LoopTimes == 0..MaxLoopTime

Answers == {Response(st) : st \in Statuses} \cup {Raises(e) : e \in Exceptions}

\* Host URLs.
HostA == <<"h", "t", "t", "p", ":", "/", "/", "a">>
HostB == <<"h", "t", "t", "p", "s", ":", "/", "/", "b", ".", "i", "o">>
HostNames == {HostA, HostB}

\* ------------------------------------------------------------------ state

VARIABLES
    hosts,        \* self.hosts
    count,        \* self.count
    output_file,  \* self.output_file: None or a path
    results,      \* self.results
    session,      \* the aiohttp.ClientSession of start(): "none", "open", "closed"
    pcMain,       \* where the caller of start() and print_table() is
    gatherMain,   \* the future of the gather of start()
    hostTask,     \* the tasks of fetch_host, by index of the host
    probe,        \* the tasks of fetch_once, by index of the host and launch index
    ready,        \* the queue of ready callbacks of the event loop, first in first out
    stdout,       \* the lines printed to sys.stdout
    file,         \* the lines written to output_file
    aCount,       \* sequential aggregation of one host: its count
    aAnswers,     \* the answers of the transport, in launch order
    aResults,     \* results of fetch_host
    aInfo,        \* info of fetch_host
    aIdx,         \* the position of "for result in results"
    aPc,          \* where fetch_host is
    argv,         \* the command line: the options -H, -F, -C and -O
    args,         \* the namespace of parse_args
    argPc,        \* where main() is, around parse_args
    exit          \* the exit code of the process, once it has ended

loopVars == <<hosts, count, output_file, results, session, pcMain, gatherMain,
              hostTask, probe, ready, stdout, file>>
aggVars == <<aCount, aAnswers, aResults, aInfo, aIdx, aPc>>
argVars == <<argv, args, argPc, exit>>
vars == <<loopVars, aggVars, argVars>>

MainTask == [kind |-> "main", h |-> 0, i |-> 0]
HostTask(h) == [kind |-> "host", h |-> h, i |-> 0]
ProbeTask(h, i) == [kind |-> "probe", h |-> h, i |-> i]

NoResult == FetchResult("none", None)
NoInfo == NewHostInfo(<<>>)

\* The sequential aggregation at rest, while the event loop runs.
AggIdle ==
    /\ aCount = 0
    /\ aAnswers = <<>>
    /\ aResults = <<>>
    /\ aInfo = NoInfo
    /\ aIdx = 0
    /\ aPc = "idle"

\* Python values of a namespace: None, a str, a list of str.
PyNone == [kind |-> "None", val |-> <<>>]
PyStr(s) == [kind |-> "str", val |-> s]
PyList(l) == [kind |-> "list", val |-> l]

\* An option that the command line does not hold, and one given with a value.
NotGiven == [given |-> FALSE, value |-> <<>>]
Given(v) == [given |-> TRUE, value |-> v]

NoArgs == [hosts |-> PyNone, file |-> PyNone, count |-> 0, output |-> PyNone]

\* No command line is being parsed.
ArgsIdle ==
    /\ argv = [H |-> NotGiven, F |-> NotGiven, C |-> NotGiven, O |-> NotGiven]
    /\ args = NoArgs
    /\ argPc = "idle"
    /\ exit = <<>>

\* SitesChecker.__init__: the hosts and the count that ArgsParser lets through.
\* The two URLs are interchangeable, so the first host is HostA; a list may
\* name a host twice.
Init ==
    /\ \E n \in 0..MaxHosts :
         /\ hosts \in {l \in [1..n -> HostNames] : n > 0 => l[1] = HostA}
         /\ count \in {c \in 1..MaxCount : n * c <= MaxProbes}
    /\ output_file \in {"None", "out.txt"}
    /\ results = <<>>
    /\ session = "none"
    /\ pcMain = "new"
    /\ gatherMain = "pending"
    /\ hostTask = [h \in 1..Len(hosts) |->
                     [pc |-> "unborn", gather |-> "pending", info |-> NoInfo]]
    /\ probe = [h \in 1..Len(hosts) |->
                  [i \in 1..count |->
                     [pc |-> "unborn", result |-> NoResult]]]
    /\ ready = <<>>
    /\ stdout = <<>>
    /\ file = <<>>
    /\ AggIdle
    /\ ArgsIdle

\* ------------------------------------------------------------------ start

\* Every task given the last host of the list.
TaskHostLateBound(h) == hosts[Len(hosts)]
\* The host that the task of index h is given (bench.py:142).
TaskHost(h) == hosts[h]

\* Only the first probe handed to gather.
ProbesLaunchedFirstOnly(n) == {1}
\* The launch indexes of the probes that fetch_host hands to gather at once
\* (bench.py:118-119).
ProbesLaunched(n) == 1..n

\* The sequence of the elements of a set of numbers, ascending.
RECURSIVE Ascending(_)
Ascending(S) ==
    IF S = {} THEN <<>>
    ELSE LET m == CHOOSE x \in S : \A y \in S : x <= y
         IN  <<m>> \o Ascending(S \ {m})

\* A gather awaited after the block of the session has been left.
SessionInGatherClosed == "closed"
\* The session while start() awaits gather, inside "async with" (bench.py:141-143).
SessionInGather == "open"

\* start() up to its await: the session is opened and gather makes a task of
\* each fetch_host; with no hosts gather returns [] without suspending.
Start ==
    /\ pcMain = "new"
    /\ IF hosts = <<>>
       THEN /\ session' = "closed"
            /\ results' = <<>>
            /\ pcMain' = "done"
            /\ gatherMain' = "result"
            /\ UNCHANGED <<hostTask, ready>>
       ELSE /\ session' = SessionInGather
            /\ hostTask' = [h \in DOMAIN hostTask |-> [hostTask[h] EXCEPT !.pc = "created"]]
            /\ ready' = ready \o [h \in 1..Len(hosts) |-> HostTask(h)]
            /\ pcMain' = "gather"
            /\ UNCHANGED <<results, gatherMain>>
    /\ UNCHANGED <<hosts, count, output_file, probe, stdout, file, aggVars, argVars>>

\* fetch_host up to its await: gather makes a task of each fetch_once.
RunHostStart ==
    /\ ready # <<>>
    /\ Head(ready).kind = "host"
    /\ LET h == Head(ready).h
           launched == ProbesLaunched(count)
       IN  /\ hostTask[h].pc = "created"
           /\ hostTask' = [hostTask EXCEPT ![h].pc = "gather"]
           /\ probe' = [probe EXCEPT ![h] =
                          [i \in 1..count |->
                             IF i \in launched
                             THEN [probe[h][i] EXCEPT !.pc = "created"]
                             ELSE probe[h][i]]]
           /\ ready' = Tail(ready)
                       \o [k \in 1..Cardinality(launched) |->
                             ProbeTask(h, Ascending(launched)[k])]
    /\ UNCHANGED <<hosts, count, output_file, results, session, pcMain, gatherMain,
                   stdout, file, aggVars, argVars>>

\* fetch_once up to its await: the start time is taken and the GET is issued
\* on the session.
RunProbeIssue ==
    /\ ready # <<>>
    /\ Head(ready).kind = "probe"
    /\ LET h == Head(ready).h
           i == Head(ready).i
       IN  /\ probe[h][i].pc = "created"
           /\ probe' = [probe EXCEPT ![h][i].pc = "awaiting"]
           /\ ready' = Tail(ready)
    /\ UNCHANGED <<hosts, count, output_file, results, session, pcMain, gatherMain,
                   hostTask, stdout, file, aggVars, argVars>>

\* The transport has the answer to a GET that is awaited: the task of the
\* probe is ready to go on.
Answer(h, i) ==
    /\ probe[h][i].pc = "awaiting"
    /\ probe' = [probe EXCEPT ![h][i].pc = "answered"]
    /\ ready' = Append(ready, ProbeTask(h, i))
    /\ UNCHANGED <<hosts, count, output_file, results, session, pcMain, gatherMain,
                   hostTask, stdout, file, aggVars, argVars>>

\* A gather that is over with the first probe that returns.
AnyProbeDone(p, h) == \E i \in ProbesLaunched(count) : p[h][i].pc = "done"
\* The probes of host h that gather waits for have all returned, in probe p.
AllProbesDone(p, h) == \A i \in ProbesLaunched(count) : p[h][i].pc = "done"

\* fetch_once after its await: it returns a FetchResult, or the exception
\* leaves it.  gather of fetch_host wakes fetch_host with the first exception,
\* or with the results once every probe returned.
RunProbeFinish ==
    /\ ready # <<>>
    /\ Head(ready).kind = "probe"
    /\ LET h == Head(ready).h
           i == Head(ready).i
       IN  /\ probe[h][i].pc = "answered"
           /\ \E answer \in Answers :
                IF Returns(answer)
                THEN \E seconds \in LoopTimes :
                       /\ probe' = [probe EXCEPT ![h][i].pc = "done",
                                                 ![h][i].result = Classify(answer, seconds)]
                       /\ IF hostTask[h].gather = "pending" /\ AllProbesDone(probe', h)
                          THEN /\ hostTask' = [hostTask EXCEPT ![h].gather = "result"]
                               /\ ready' = Append(Tail(ready), HostTask(h))
                          ELSE /\ ready' = Tail(ready)
                               /\ UNCHANGED hostTask
                ELSE /\ probe' = [probe EXCEPT ![h][i].pc = "raised"]
                     /\ IF hostTask[h].gather = "pending"
                        THEN /\ hostTask' = [hostTask EXCEPT ![h].gather = "exception"]
                             /\ ready' = Append(Tail(ready), HostTask(h))
                        ELSE /\ ready' = Tail(ready)
                             /\ UNCHANGED hostTask
    /\ UNCHANGED <<hosts, count, output_file, results, session, pcMain, gatherMain,
                   stdout, file, aggVars, argVars>>

\* The results in the reverse of the launch order.
GatheredResultsReversed(h) == [i \in 1..count |-> probe[h][count + 1 - i].result]
\* results of fetch_host: what gather returns, in launch order.
GatheredResults(h) == [i \in 1..count |-> probe[h][i].result]

\* The tasks of fetch_host have all returned, in hostTask t.
AllHostsDone(t) == \A h \in DOMAIN t : t[h].pc = "done"

\* fetch_host after its await: it folds the results into a HostInfo and returns
\* it, or the exception of a probe leaves it.  gather of start() wakes start()
\* with the first exception, or once every fetch_host returned.
RunHostFinish ==
    /\ ready # <<>>
    /\ Head(ready).kind = "host"
    /\ LET h == Head(ready).h
       IN  /\ hostTask[h].pc = "gather"
           /\ IF hostTask[h].gather = "result"
              THEN \E ups \in [1..count -> BOOLEAN] :
                     /\ hostTask' = [hostTask EXCEPT
                                       ![h].pc = "done",
                                       ![h].info = FoldAll(TaskHost(h), GatheredResults(h), ups)]
                     /\ IF gatherMain = "pending" /\ AllHostsDone(hostTask')
                        THEN /\ gatherMain' = "result"
                             /\ ready' = Append(Tail(ready), MainTask)
                        ELSE /\ ready' = Tail(ready)
                             /\ UNCHANGED gatherMain
              ELSE /\ hostTask' = [hostTask EXCEPT ![h].pc = "raised"]
                   /\ IF gatherMain = "pending"
                      THEN /\ gatherMain' = "exception"
                           /\ ready' = Append(Tail(ready), MainTask)
                      ELSE /\ ready' = Tail(ready)
                           /\ UNCHANGED gatherMain
    /\ UNCHANGED <<hosts, count, output_file, results, session, pcMain, probe,
                   stdout, file, aggVars, argVars>>

\* What gather of start() returns: the HostInfo of every host, in the order of
\* the hosts.
GatheredInfos == [h \in 1..Len(hosts) |-> hostTask[h].info]

\* start() after its await: self.results is assigned, or the exception leaves
\* start(); the session is closed either way.
RunMainFinish ==
    /\ ready # <<>>
    /\ Head(ready).kind = "main"
    /\ pcMain = "gather"
    /\ session' = "closed"
    /\ ready' = Tail(ready)
    /\ IF gatherMain = "result"
       THEN /\ results' = GatheredInfos
            /\ pcMain' = "done"
       ELSE /\ pcMain' = "raised"
            /\ UNCHANGED results
    /\ UNCHANGED <<hosts, count, output_file, gatherMain, hostTask, probe,
                   stdout, file, aggVars, argVars>>

\* A print_table that goes on with no record.
ReturnsEarlyNever(infos) == FALSE
\* if not self.results: return
ReturnsEarly(infos) == infos = <<>>

\* print_table(), called once start() returned.
PrintTable ==
    /\ pcMain = "done"
    /\ pcMain' = "printed"
    /\ IF ReturnsEarly(results)
       THEN UNCHANGED <<stdout, file>>
       ELSE IF output_file # "None"
            THEN file' = Lines(results) /\ UNCHANGED stdout
            ELSE stdout' = Lines(results) /\ UNCHANGED file
    /\ UNCHANGED <<hosts, count, output_file, results, session, gatherMain,
                   hostTask, probe, ready, aggVars, argVars>>

Next ==
    \/ Start
    \/ RunHostStart
    \/ RunProbeIssue
    \/ \E h \in DOMAIN probe : \E i \in DOMAIN probe[h] : Answer(h, i)
    \/ RunProbeFinish
    \/ RunHostFinish
    \/ RunMainFinish
    \/ PrintTable

Spec == Init /\ [][Next]_vars

\* ------------------------------------------- fetch_host, pass by pass

\* The event loop at rest, while one host is aggregated pass by pass.
LoopIdle ==
    /\ hosts = <<>>
    /\ count = 1
    /\ output_file = "None"
    /\ results = <<>>
    /\ session = "none"
    /\ pcMain = "idle"
    /\ gatherMain = "pending"
    /\ hostTask = <<>>
    /\ probe = <<>>
    /\ ready = <<>>
    /\ stdout = <<>>
    /\ file = <<>>

\* fetch_host(session, HostA) with a count of 1..MaxLen.
AggInit ==
    /\ LoopIdle
    /\ aCount \in 1..MaxLen
    /\ aAnswers = <<>>
    /\ aResults = <<>>
    /\ aInfo = NoInfo
    /\ aIdx = 0
    /\ aPc = "gather"
    /\ ArgsIdle

\* The next probe, in launch order, has its answer: gather keeps the
\* FetchResult that fetch_once returns, or raises the exception that leaves
\* fetch_once.
AggProbe ==
    /\ aPc = "gather"
    /\ Len(aResults) < aCount
    /\ \E answer \in Answers :
         IF Returns(answer)
         THEN \E seconds \in Times :
                /\ aAnswers' = Append(aAnswers, answer)
                /\ aResults' = Append(aResults, Classify(answer, seconds))
                /\ UNCHANGED aPc
         ELSE /\ aPc' = "raised"
              /\ aAnswers' = Append(aAnswers, answer)
              /\ UNCHANGED aResults
    /\ UNCHANGED <<aCount, aInfo, aIdx, loopVars, argVars>>

\* info = HostInfo(host = host), once gather returned the results.
AggNewInfo ==
    /\ aPc = "gather"
    /\ Len(aResults) = aCount
    /\ aInfo' = NewHostInfo(HostA)
    /\ aIdx' = 1
    /\ aPc' = "fold"
    /\ UNCHANGED <<aCount, aAnswers, aResults, loopVars, argVars>>

\* One pass of "for result in results".
AggFold ==
    /\ aPc = "fold"
    /\ aIdx <= aCount
    /\ \E up \in BOOLEAN : aInfo' = FoldStep(aInfo, aResults[aIdx], up)
    /\ aIdx' = aIdx + 1
    /\ UNCHANGED <<aCount, aAnswers, aResults, aPc, loopVars, argVars>>

\* return info
AggReturn ==
    /\ aPc = "fold"
    /\ aIdx > aCount
    /\ aPc' = "returned"
    /\ UNCHANGED <<aCount, aAnswers, aResults, aInfo, aIdx, loopVars, argVars>>

AggNext == AggProbe \/ AggNewInfo \/ AggFold \/ AggReturn

AggSpec == AggInit /\ [][AggNext]_vars

\* ------------------------------------------------------------ args_parser

Whitespace == {" ", "\n"}

RECURSIVE LStrip(_)
LStrip(s) == IF s # <<>> /\ Head(s) \in Whitespace THEN LStrip(Tail(s)) ELSE s

RECURSIVE RStrip(_)
RStrip(s) ==
    IF s # <<>> /\ s[Len(s)] \in Whitespace
    THEN RStrip(SubSeq(s, 1, Len(s) - 1))
    ELSE s

\* str.strip
StrStrip(s) == RStrip(LStrip(s))

\* str.find for a set of characters: the first index of s, from 1, that holds
\* one of them, 0 if there is none.
Find(s, cs) ==
    IF \E k \in 1..Len(s) : s[k] \in cs
    THEN CHOOSE k \in 1..Len(s) :
             s[k] \in cs /\ \A j \in 1..(k - 1) : s[j] \notin cs
    ELSE 0

\* str.split(sep)
RECURSIVE Split(_, _)
Split(s, sep) ==
    LET k == Find(s, {sep})
    IN  IF k = 0 THEN <<s>>
        ELSE <<SubSeq(s, 1, k - 1)>> \o Split(SubSeq(s, k + 1, Len(s)), sep)

IsDigit(c) == \E d \in 1..10 : Digit[d] = c
DigitVal(c) == (CHOOSE d \in 1..10 : Digit[d] = c) - 1

RECURSIVE DigitsVal(_)
DigitsVal(s) ==
    IF s = <<>> THEN 0
    ELSE 10 * DigitsVal(SubSeq(s, 1, Len(s) - 1)) + DigitVal(s[Len(s)])

\* int(value) of a str: blanks around, a sign, digits; anything else is a
\* ValueError.
PyInt(value) ==
    LET t == StrStrip(value)
        signed == t # <<>> /\ t[1] \in {"+", "-"}
        body == IF signed THEN Tail(t) ELSE t
        ok == body # <<>> /\ \A k \in 1..Len(body) : IsDigit(body[k])
    IN  [error |-> ~ok,
         value |-> IF ~ok THEN 0
                   ELSE IF signed /\ t[1] = "-" THEN 0 - DigitsVal(body)
                   ELSE DigitsVal(body)]

\* check_count: error stands for the ArgumentTypeError.
CheckCount(value) ==
    LET n == PyInt(value)
    IN  [error |-> n.error \/ n.value < 1, value |-> n.value]

Upper == {"H", "T", "P"}
Alpha == {"a", "b", "e", "f", "h", "i", "o", "p", "s", "t"} \cup Upper
SchemeChars == Alpha \cup {Digit[d] : d \in 1..10} \cup {"+", "-", "."}

\* str.lower, character by character.
Lower(c) ==
    CASE c = "H" -> "h"
      [] c = "T" -> "t"
      [] c = "P" -> "p"
      [] OTHER -> c

LowerStr(s) == IF s = <<>> THEN <<>> ELSE [k \in 1..Len(s) |-> Lower(s[k])]

\* urlparse(url), its scheme and its netloc: the scheme is what precedes the
\* first ":", lowered, when it starts with a letter and holds scheme
\* characters only; the netloc is what follows "//" up to the next "/", "?"
\* or "#". A netloc with an unmatched bracket is a ValueError.
UrlParse(url) ==
    LET i == Find(url, {":"})
        hasScheme == /\ i > 1
                     /\ url[1] \in Alpha
                     /\ \A k \in 1..(i - 1) : url[k] \in SchemeChars
        scheme == IF hasScheme THEN LowerStr(SubSeq(url, 1, i - 1)) ELSE <<>>
        rest == IF hasScheme THEN SubSeq(url, i + 1, Len(url)) ELSE url
        hasNetloc == Len(rest) >= 2 /\ rest[1] = "/" /\ rest[2] = "/"
        after == SubSeq(rest, 3, Len(rest))
        stop == Find(after, {"/", "?", "#"})
        netloc == IF ~hasNetloc THEN <<>>
                  ELSE IF stop = 0 THEN after
                  ELSE SubSeq(after, 1, stop - 1)
    IN  [error |-> (Find(netloc, {"["}) > 0) # (Find(netloc, {"]"}) > 0),
         scheme |-> scheme,
         netloc |-> netloc]

Http == <<"h", "t", "t", "p">>
Https == <<"h", "t", "t", "p", "s">>

\* A host that validate_hosts lets pass.
ValidHost(host) ==
    LET parsed_host == UrlParse(host)
    IN  /\ ~parsed_host.error
        /\ parsed_host.scheme \in {Http, Https}
        /\ parsed_host.netloc # <<>>

\* validate_hosts(hosts) raises ArgumentTypeError.
ValidateHostsRaises(hs) == \E k \in 1..Len(hs) : ~ValidHost(hs[k])

\* sites of convert_hosts
Sites(s) ==
    LET parts == Split(s, ",")
    IN  [k \in 1..Len(parts) |-> StrStrip(parts[k])]

\* The file system: a path that does not exist, a directory and three files
\* with their lines.
NoFile == <<"n">>
ADir == <<"d">>
GoodFile == <<"g">>
BadFile == <<"b">>
EmptyFile == <<"e">>
FtpA == <<"f", "t", "p", ":", "/", "/", "a">>

ReadLines(path) ==
    CASE path = GoodFile -> <<HostA \o <<"\n">>, <<"\n">>,
                              <<" ">> \o HostB \o <<" ", "\n">>>>
      [] path = BadFile -> <<HostA \o <<"\n">>, FtpA \o <<"\n">>>>
      [] OTHER -> <<>>

PathIsFile(path) == path \in {GoodFile, BadFile, EmptyFile}
PathExists(path) == PathIsFile(path) \/ path = ADir

\* hosts of convert_input_file: the lines, stripped, without the blank ones.
FileHosts(path) ==
    LET lines == ReadLines(path)
    IN  SelectSeq([k \in 1..Len(lines) |-> StrStrip(lines[k])],
                  LAMBDA l : l # <<>>)

\* bool(v) of a namespace value.
Truthy(v) == v.kind # "None" /\ v.val # <<>>

\* ArgumentParser.parse_args ends in self.error(): a count that check_count
\* refuses, -H together with -F, neither of them.
ArgparseError(av) ==
    \/ av.C.given /\ CheckCount(av.C.value).error
    \/ av.H.given /\ av.F.given
    \/ ~av.H.given /\ ~av.F.given

\* The namespace of ArgumentParser.parse_args.
Namespace(av) ==
    [hosts |-> IF av.H.given THEN PyStr(av.H.value) ELSE PyNone,
     file |-> IF av.F.given THEN PyStr(av.F.value) ELSE PyNone,
     count |-> IF av.C.given THEN CheckCount(av.C.value).value ELSE 1,
     output |-> IF av.O.given THEN PyStr(av.O.value) ELSE PyNone]

\* ArgsParser.parse_args: how it ends, and the namespace it returns.
ParseArgsOutcome(av) ==
    LET ns == Namespace(av)
    IN  IF ArgparseError(av) THEN [pc |-> "SystemExit", args |-> NoArgs]
        ELSE IF Truthy(ns.hosts)
        THEN IF ValidateHostsRaises(Sites(ns.hosts.val))
             THEN [pc |-> "ArgumentTypeError", args |-> NoArgs]
             ELSE [pc |-> "returned",
                   args |-> [ns EXCEPT !.hosts = PyList(Sites(ns.hosts.val))]]
        ELSE IF Truthy(ns.file)
        THEN IF \/ ~PathExists(ns.file.val)
                \/ ~PathIsFile(ns.file.val)
                \/ ValidateHostsRaises(FileHosts(ns.file.val))
             THEN [pc |-> "ArgumentTypeError", args |-> NoArgs]
             ELSE [pc |-> "returned",
                   args |-> [ns EXCEPT !.hosts = PyList(FileHosts(ns.file.val))]]
        ELSE [pc |-> "returned", args |-> ns]

\* The values of -H, of -F and of -C on the command line.
HostsValues ==
    {<<>>, <<" ">>, HostA, HostA \o <<",">>, HostA \o <<",", " ">> \o HostB,
     FtpA, <<"t", "e", "s", "t">>, <<"h", "t", "t", "p", ":", "/", "a">>,
     <<"H", "T", "T", "P", ":", "/", "/", "a">>,
     <<"h", "t", "t", "p", ":", "/", "/", "[", "a">>}
FileValues == {<<>>, NoFile, ADir, GoodFile, BadFile, EmptyFile}
CountValues ==
    {<<>>, <<"0">>, <<"1">>, <<"2">>, <<"-", "1">>, <<" ", "2", " ">>,
     <<"a", "b">>, <<"1", ".", "1">>}
OutputValues == {<<"o">>}

Options(values) == {NotGiven} \cup {Given(v) : v \in values}

ArgsInit ==
    /\ LoopIdle
    /\ AggIdle
    /\ argv \in [H : Options(HostsValues), F : Options(FileValues),
                 C : Options(CountValues), O : Options(OutputValues)]
    /\ args = NoArgs
    /\ argPc = "main"
    /\ exit = <<>>

\* args = parser.parse_args()
ParseArgs ==
    /\ argPc = "main"
    /\ argPc' = ParseArgsOutcome(argv).pc
    /\ args' = ParseArgsOutcome(argv).args
    /\ UNCHANGED <<argv, exit, loopVars, aggVars>>

\* SitesChecker(hosts = args.hosts, count = args.count, output_file = args.output)
Construct ==
    /\ argPc = "returned"
    /\ argPc' = "constructed"
    /\ UNCHANGED <<argv, args, exit, loopVars, aggVars>>

\* The exception leaves main() and asyncio.run(): SystemExit ends the process
\* with its code, 2 from ArgumentParser.error(); any other exception ends it
\* with a traceback and the code 1.
ProcessExit ==
    /\ argPc \in {"SystemExit", "ArgumentTypeError"}
    /\ exit' = <<IF argPc = "SystemExit" THEN 2 ELSE 1>>
    /\ argPc' = "exited"
    /\ UNCHANGED <<argv, args, loopVars, aggVars>>

ArgsNext == ParseArgs \/ Construct \/ ProcessExit

ArgsSpec == ArgsInit /\ [][ArgsNext]_vars

\* ------------------------------------------------------------ properties

Started == pcMain \in {"done", "printed"}

\* C1: every transport failure of a probe (a refused connection, a timeout, a
\* protocol or DNS error) becomes an Error result inside fetch_once: no
\* exception leaves a probe, none leaves start(), and once start() has
\* returned there is one HostInfo for every host.
C1_FailuresNeverPropagate ==
    /\ \A h \in DOMAIN probe : \A i \in DOMAIN probe[h] : probe[h][i].pc # "raised"
    /\ \A h \in DOMAIN hostTask : hostTask[h].pc # "raised"
    /\ pcMain # "raised"
    /\ Started => Len(results) = Len(hosts)

\* C2: the HostInfo that fetch_host returns for a count of N has
\* success + failed + errors = N, whatever the outcomes of the N probes; after
\* each pass of the loop the three counters add up to the results folded.
C2_CountersAddUp ==
    /\ aPc = "fold" => aInfo.success + aInfo.failed + aInfo.errors = aIdx - 1
    /\ aPc = "returned" => aInfo.success + aInfo.failed + aInfo.errors = aCount

\* A returned record of the largest count with all three outcomes in it.
C2_Witness ==
    /\ aPc = "returned"
    /\ aCount = MaxLen
    /\ aInfo.success > 0
    /\ aInfo.failed > 0
    /\ aInfo.errors > 0

\* C3: once start() has returned, results has one record for every host and
\* results[i].host is hosts[i], whatever the order in which the probes were
\* answered and also when a host is named twice.
C3_ResultsInHostOrder ==
    Started =>
        /\ Len(results) = Len(hosts)
        /\ \A i \in 1..Len(hosts) : results[i].host = hosts[i]

\* start() has returned for two different hosts.
C3_Witness ==
    /\ Started
    /\ Len(hosts) >= 2
    /\ hosts[1] # hosts[2]
    /\ results[2].errors > 0

\* The timed results folded so far.
TimedSoFar(info) == info.success + info.failed

\* C4: a pass of the loop over a timed result with elapsed time t sets avg to
\* (k * avg + t) / (k + 1), rounded to 3 decimals, where k = success + failed
\* is the number of timed results folded before it.
C4_AvgIsRunningMean ==
    [][(aPc = "fold" /\ aIdx <= aCount /\ aIdx' = aIdx + 1
        /\ aResults[aIdx].status # ERROR)
       => LET k == TimedSoFar(aInfo)
              avg0 == IF aInfo.avg = None THEN 0 ELSE aInfo.avg.ms
              t == aResults[aIdx].time.ms
          IN  \E up \in BOOLEAN : aInfo'.avg = Num(Round3(k * avg0 + t, k + 1, up))]_vars

\* results in the order perm.
Permuted(rs, perm) == [j \in 1..Len(rs) |-> rs[perm[j]]]

\* C5: the fold does not depend on the order of the results: folding any
\* reordering of the same results gives the same success, failed, errors, min,
\* max and avg (for some way of rounding the halves).
C5_FoldOrderIndependent ==
    aPc = "returned" =>
        \A perm \in Permutations(1..aCount) :
            \E ups \in [1..aCount -> BOOLEAN] :
                FoldAll(HostA, Permuted(aResults, perm), ups) = aInfo

\* C6, as claimed: in the returned HostInfo min, max and avg are each a number
\* when success + failed > 0 and each absent (None, no infinity left in min or
\* max) when every probe errored.
C6_AbsentTogether ==
    aPc = "returned" =>
        \A key \in {"min", "max", "avg"} :
            IF TimedSoFar(aInfo) > 0 THEN IsNum(aInfo[key]) ELSE aInfo[key] = None

\* C6, amended: in the returned HostInfo min, max and avg are each a number
\* exactly when success + failed > 0; when every probe errored avg is None,
\* min is still float("inf") and max is still float("-inf").
C6_NumbersTogether ==
    aPc = "returned" =>
        /\ \A key \in {"min", "max", "avg"} : IsNum(aInfo[key]) <=> TimedSoFar(aInfo) > 0
        /\ TimedSoFar(aInfo) = 0 =>
               (aInfo.avg = None /\ aInfo.min = PosInf /\ aInfo.max = NegInf)

\* A returned record of probes that all errored.
C6_Witness ==
    /\ aPc = "returned"
    /\ aCount >= 2
    /\ aInfo.errors = aCount

\* The text of line between its k-th and its (k+1)-th "|".
RECURSIVE FieldFrom(_, _, _)
FieldFrom(line, k, j) ==
    IF j > Len(line) THEN <<>>
    ELSE IF line[j] = "|"
         THEN IF k = 0 THEN <<>> ELSE FieldFrom(line, k - 1, j + 1)
         ELSE IF k = 0 THEN <<line[j]>> \o FieldFrom(line, k, j + 1)
              ELSE FieldFrom(line, k, j + 1)
Field(line, k) == FieldFrom(line, k, 1)

\* Whether sub occurs in line.
Contains(line, sub) ==
    \E j \in 1..(Len(line) - Len(sub) + 1) : SubSeq(line, j, j + Len(sub) - 1) = sub

AllSpaces(s) == \A j \in 1..Len(s) : s[j] = " "

\* What print_table wrote, wherever it wrote it.
Written == IF output_file = "None" THEN stdout ELSE file

\* C7: for a host with success + failed = 0 the row that print_table writes
\* has blank min, max and avg cells and holds neither "None" nor "inf" (so not
\* "-inf" either), and the table is whole: three lines of heading and two
\* lines for every host.
C7_BlankCells ==
    (pcMain = "printed" /\ results # <<>>) =>
        /\ Len(Written) = 3 + 2 * Len(results)
        /\ \A i \in 1..Len(results) :
             results[i].success + results[i].failed = 0 =>
                LET row == Written[2 + 2 * i]
                IN  /\ Field(row, 1) # <<>>
                    /\ \A k \in 5..7 : Field(row, k) # <<>> /\ AllSpaces(Field(row, k))
                    /\ ~Contains(row, <<"N", "o", "n", "e">>)
                    /\ ~Contains(row, <<"i", "n", "f">>)

\* A table of two hosts is written, the first with nothing but errors and the
\* second with a timed result.
C7_Witness ==
    /\ pcMain = "printed"
    /\ Len(results) = 2
    /\ results[1].success + results[1].failed = 0
    /\ results[2].failed > 0

\* C8: after every pass of the loop, and in the record returned, min <= avg
\* <= max as soon as a timed result has been folded.
C8_AvgBetweenMinAndMax ==
    (aPc \in {"fold", "returned"} /\ TimedSoFar(aInfo) > 0) =>
        /\ IsNum(aInfo.min) /\ IsNum(aInfo.avg) /\ IsNum(aInfo.max)
        /\ aInfo.min.ms <= aInfo.avg.ms
        /\ aInfo.avg.ms <= aInfo.max.ms

\* In the middle of the loop, with a success and a failure folded and the
\* average strictly between the two times.
C8_Witness ==
    /\ aPc = "fold"
    /\ aIdx <= aCount
    /\ aInfo.success > 0
    /\ aInfo.failed > 0
    /\ aInfo.min.ms < aInfo.avg.ms
    /\ aInfo.avg.ms < aInfo.max.ms

Probes == {<<h, i>> : h \in DOMAIN probe, i \in 1..count}

\* C9: every probe of every host issues its GET before any probe has
\* completed: no probe waits for another one.
C9_AllLaunchedBeforeAnyCompletes ==
    (\E p \in Probes : probe[p[1]][p[2]].pc \in {"done", "raised"}) =>
        \A q \in Probes : probe[q[1]][q[2]].pc \notin {"unborn", "created"}

\* All the probes of two hosts with a count of two await their answer at once.
C9_Witness ==
    /\ Len(hosts) = 2
    /\ count = 2
    /\ \A q \in Probes : probe[q[1]][q[2]].pc = "awaiting"

C11_EmptyRunPrintsNothing ==
    hosts = <<>> =>
        /\ pcMain \in {"new", "done", "printed"}
        /\ results = <<>>
        /\ stdout = <<>>
        /\ file = <<>>

\* print_table has returned for a run with no host and an output file.
C11_Witness ==
    /\ hosts = <<>>
    /\ output_file # "None"
    /\ pcMain = "printed"

\* C12: a process that a failed validation of the arguments ends (-H with
\* -F, neither, an invalid host, a count that is no positive integer, a
\* missing input file) ends with the exit code 2.
C12_ValidationExitsWith2 == exit # <<>> => exit = <<2>>

\* C13: when parse_args has returned, args.hosts is a list of hosts with the
\* scheme http or https and a netloc, and args.count is an integer >= 1: the
\* core is given nothing else.
C13_OnlyValidReachesCore ==
    argPc \in {"returned", "constructed"} =>
        /\ args.hosts.kind = "list"
        /\ \A k \in 1..Len(args.hosts.val) : ValidHost(args.hosts.val[k])
        /\ args.count >= 1

\* C14: the HostInfo of a host is built once all its probes have returned and
\* from all of them; self.results is empty or holds the complete record of
\* every host, also when an exception leaves a probe.
C14_AllOrNothing ==
    /\ \A h \in DOMAIN hostTask :
         IF hostTask[h].pc = "done"
         THEN /\ \A i \in 1..count : probe[h][i].pc = "done"
              /\ hostTask[h].info.success + hostTask[h].info.failed
                 + hostTask[h].info.errors = count
         ELSE hostTask[h].info = NoInfo
    /\ \/ results = <<>>
       \/ /\ Len(results) = Len(hosts)
          /\ \A h \in 1..Len(hosts) :
               results[h].success + results[h].failed + results[h].errors = count
    /\ results # <<>> => Started

\* An exception has left start() while one host has its record: results is
\* still empty.
C14_Witness ==
    /\ pcMain = "raised"
    /\ results = <<>>
    /\ \E h \in DOMAIN hostTask : hostTask[h].pc = "done"

\* C15: one session serves the run: it is opened once, before the first GET,
\* every GET is issued while it is open, and it is closed when start() is
\* left, be it by a return, with no host, or by the exception of a probe.
C15_SessionScoped ==
    /\ [](/\ pcMain = "new" => session = "none"
          /\ pcMain = "gather" => session = "open"
          /\ pcMain \in {"done", "raised", "printed"} => session = "closed"
          /\ (\E p \in Probes : probe[p[1]][p[2]].pc \notin {"unborn", "created"})
             => session # "none")
    /\ [][/\ \A p \in Probes :
               (probe[p[1]][p[2]].pc = "created" /\ probe'[p[1]][p[2]].pc = "awaiting")
               => session = "open"
          /\ session' # session
             => (session = "none" \/ (session = "open" /\ session' = "closed"))]_vars

\* The exception of a probe has left start(): the session is closed while
\* another probe still awaits its answer.
C15_Witness ==
    /\ pcMain = "raised"
    /\ session = "closed"
    /\ \E p \in Probes : probe[p[1]][p[2]].pc = "awaiting"

\* The sum of the elapsed times of the results rs, in milliseconds.
RECURSIVE SumMs(_)
SumMs(rs) == IF rs = <<>> THEN 0 ELSE rs[1].time.ms + SumMs(Tail(rs))

\* C16: when every probe of a host is a Success, the avg that fetch_host
\* returns, rounded after each pass of the loop, is the exact mean of the
\* elapsed times rounded to 3 decimals (a half rounded either way).
C16_AvgIsRoundedMean ==
    (/\ aPc = "returned"
     /\ \A i \in 1..aCount : aResults[i].status = OK)
    => \E up \in BOOLEAN :
           aInfo.avg = Num(Round3(SumMs(aResults), aCount, up))

\* C17: the HostInfo of a host is the fold of the results of its probes taken
\* by launch index, whatever the order in which the probes were answered
\* (for some way of rounding the halves).
C17_FoldInLaunchOrder ==
    \A h \in DOMAIN hostTask :
        hostTask[h].pc = "done" =>
            \E ups \in [1..count -> BOOLEAN] :
                hostTask[h].info
                    = FoldAll(hosts[h], [i \in 1..count |-> probe[h][i].result], ups)

\* The record of a host whose two probes failed with different times, which
\* folds differently in the other order.
C17_Witness ==
    /\ count = 2
    /\ \E h \in DOMAIN hostTask :
         /\ hostTask[h].pc = "done"
         /\ probe[h][1].result = FetchResult(FAILED, Num(0))
         /\ probe[h][2].result = FetchResult(FAILED, Num(1))
         /\ hostTask[h].info.avg = Num(1)

====
